---- MODULE Spec2Model ----
(***************************************************************************)
(* Model of api-key-pool (src/src/lib.rs): a pool of rate-limited API      *)
(* keys.  APIKeyPool holds a Vec<APIKey> behind a tokio Mutex; every       *)
(* APIKey holds a min-heap of use timestamps behind its own Mutex.         *)
(*                                                                         *)
(* Callers are processes that repeatedly call add_key or poll_for_key.     *)
(* Every `.lock().await` statement of the source is one step of the model; *)
(* the wall clock (Utc::now()) is a variable that moves between steps.     *)
(***************************************************************************)
EXTENDS Naturals, Integers, Sequences, FiniteSets, TLC

\* ---------------------------------------------------------------- bounds
MaxCount == 2      \* largest policy.count (0 is allowed: usize, unchecked)
MaxTime  == 2      \* the clock runs over 0..MaxTime
MaxPolls == 4      \* completed poll_for_key calls recorded in the log

Procs  == {1, 2}          \* the concurrent callers
Slots  == {1, 2}          \* positions of api_keys the callers fill
IdSeq  == <<"a", "b">>    \* identifiers, in the order callers first use them
Counts == {0, 1, MaxCount} \* policy.count of the keys callers build
Pers   == {1}             \* policy.per of the keys callers build
Times  == 0..MaxTime
None   == "none"          \* Option::None of poll_for_key

VARIABLES
  api_keys,  \* APIKeyPool.api_keys: sequence of APIKey records
  lock,      \* holder of the api_keys Mutex (0: free)
  clock,     \* Utc::now()
  pc,        \* per caller: the statement it is at
  idx,       \* per caller: position of the iter_mut() iterator
  start,     \* per caller: pool and clock when its scan began (history)
  logging,   \* whether completed polls are recorded in log
  log        \* completed polls, in order of completion (history)

vars == <<api_keys, lock, clock, pc, idx, start, logging, log>>

\* ------------------------------------------------------------ data types
\* RateLimitPolicy::new(count, per): stores both fields unchecked.
RateLimitPolicyNew(count, per) == [count |-> count, per |-> per]

Policies == {RateLimitPolicyNew(c, d) : c \in Counts, d \in Pers}

\* APIKey::new(key, policy): the identifier verbatim, an empty heap.
APIKeyNew(key, policy) ==
  [key |-> key, count |-> policy.count, per |-> policy.per, times |-> <<>>]

NoStart == [keys |-> <<>>, clock |-> 0]

\* ------------------------------------------- BinaryHeap<Reverse<DateTime>>
\* A heap is a multiset; it is kept as the ascending sequence of its elements.
RECURSIVE SortedInsert(_, _)
SortedInsert(h, t) ==
  IF h = <<>> THEN <<t>>
  ELSE IF t <= Head(h) THEN <<t>> \o h
  ELSE <<Head(h)>> \o SortedInsert(Tail(h), t)

\* BinaryHeap::push
HeapPush(h, t) == SortedInsert(h, t)

\* (variant: a max-heap, the Reverse wrapper forgotten: the greatest goes)
HeapPopGreatest(h) == IF h = <<>> THEN h ELSE SubSeq(h, 1, Len(h) - 1)

\* BinaryHeap::pop on Reverse<_>: removes the smallest; no effect when empty
HeapPop(h) == IF h = <<>> THEN h ELSE Tail(h)

\* BinaryHeap::peek on Reverse<_>: the smallest element (heap non-empty)
HeapPeek(h) == Head(h)

\* ----------------------------------------------------------- APIKey logic
\* (variant: <= for <)
LenBelowCountInclusive(k) == Len(k.times) <= k.count

\* is_ready, first test (line 126): times.len() < policy.count
LenBelowCount(k) == Len(k.times) < k.count

\* (variant: <= for <)
OldestExpiredInclusive(k, now) ==
  /\ k.times /= <<>>
  /\ HeapPeek(k.times) <= now - k.per

\* (variant: the comparison reversed)
OldestExpiredReversed(k, now) ==
  /\ k.times /= <<>>
  /\ HeapPeek(k.times) > now - k.per

\* is_ready, second test (lines 129-134): oldest < Utc::now() - per
OldestExpired(k, now) ==
  /\ k.times /= <<>>
  /\ HeapPeek(k.times) < now - k.per

\* is_ready as a whole, evaluated at one instant
IsReady(k, now) == LenBelowCount(k) \/ OldestExpired(k, now)

\* (variant: > for >=)
AtCapacityStrict(k) == Len(k.times) > k.count

\* use_key, the test of line 140: times.len() >= policy.count
AtCapacity(k) == Len(k.times) >= k.count

\* ------------------------------------------------------------------ Init
Init ==
  /\ api_keys = <<>>
  /\ lock = 0
  /\ clock = 0
  /\ pc = [p \in Procs |-> "idle"]
  /\ idx = [p \in Procs |-> 0]
  /\ start = [p \in Procs |-> NoStart]
  /\ logging = FALSE
  /\ log = <<>>

\* number of add_key calls in flight
PendingAdds == Cardinality({p \in Procs : pc[p] = "add_key"})
PendingPolls == Cardinality({p \in Procs : pc[p] \notin {"idle", "add_key"}})

\* --------------------------------------------------------------- add_key
\* A caller calls add_key; it then waits for the pool lock.
CallAddKey(p) ==
  /\ pc[p] = "idle"
  /\ Len(api_keys) + PendingAdds < Cardinality(Slots)
  /\ pc' = [pc EXCEPT ![p] = "add_key"]
  /\ UNCHANGED <<api_keys, lock, clock, idx, start, logging, log>>

\* Identifiers are opaque strings, so the identifier of a new key is drawn
\* up to renaming: one already in the pool, or the first one not yet used.
KnownIds == {api_keys[i].key : i \in 1..Len(api_keys)}

NewIds ==
  KnownIds \cup (IF Cardinality(KnownIds) < Len(IdSeq)
                   THEN {IdSeq[Cardinality(KnownIds) + 1]} ELSE {})

\* (variant: insertion at the front)
VecPushFront(v, k) == <<k>> \o v

\* Vec::push
VecPush(v, k) == Append(v, k)

\* add_key (line 75): lock, push, unlock, in one statement.  The key passed
\* by the caller (built by APIKey::new) is drawn here.
AddKey(p) ==
  /\ pc[p] = "add_key"
  /\ lock = 0
  /\ \E id \in NewIds, pol \in Policies :
       api_keys' = VecPush(api_keys, APIKeyNew(id, pol))
  /\ pc' = [pc EXCEPT ![p] = "idle"]
  /\ UNCHANGED <<lock, clock, idx, start, logging, log>>

\* ---------------------------------------------------------- poll_for_key
CallPoll(p) ==
  /\ pc[p] = "idle"
  /\ logging => Len(log) + PendingPolls < MaxPolls
  /\ pc' = [pc EXCEPT ![p] = "poll_for_key"]
  /\ UNCHANGED <<api_keys, lock, clock, idx, start, logging, log>>

\* (variant: the guard is dropped before the loop body runs)
PollLockReleased(p) ==
  /\ pc[p] = "poll_for_key"
  /\ lock = 0
  /\ lock' = 0
  /\ idx' = [idx EXCEPT ![p] = 1]
  /\ start' = [start EXCEPT ![p] = [keys |-> api_keys, clock |-> clock]]
  /\ pc' = [pc EXCEPT ![p] = "next"]
  /\ UNCHANGED <<api_keys, clock, logging, log>>

\* (variant: the scan starts at the second key)
PollLockSkipFirst(p) ==
  /\ pc[p] = "poll_for_key"
  /\ lock = 0
  /\ lock' = p
  /\ idx' = [idx EXCEPT ![p] = 2]
  /\ start' = [start EXCEPT ![p] = [keys |-> api_keys, clock |-> clock]]
  /\ pc' = [pc EXCEPT ![p] = "next"]
  /\ UNCHANGED <<api_keys, clock, logging, log>>

\* line 81: self.api_keys.lock().await.iter_mut(); the guard is a temporary
\* of the for expression and lives until the loop is left.
PollLock(p) ==
  /\ pc[p] = "poll_for_key"
  /\ lock = 0
  /\ lock' = p
  /\ idx' = [idx EXCEPT ![p] = 1]
  /\ start' = [start EXCEPT ![p] = [keys |-> api_keys, clock |-> clock]]
  /\ pc' = [pc EXCEPT ![p] = "next"]
  /\ UNCHANGED <<api_keys, clock, logging, log>>

\* what a completed poll leaves in the log: the index of the key used (0:
\* none), the value returned, the clock when the scan began and when the call
\* returned; the first entry also keeps the number of keys the pool held
LogEntry(p, i, res) ==
  [idx |-> i, res |-> res, t0 |-> start[p].clock, t |-> clock,
   n |-> IF log = <<>> THEN Len(api_keys) ELSE 0]

\* leaving poll_for_key: the guard is dropped, the result is returned
Return(p, i, res) ==
  /\ lock' = 0
  /\ log' = IF logging THEN Append(log, LogEntry(p, i, res)) ELSE log
  /\ pc' = [pc EXCEPT ![p] = "idle"]
  /\ idx' = [idx EXCEPT ![p] = 0]
  /\ start' = [start EXCEPT ![p] = NoStart]

\* (variant: at the end of the sequence the scan starts over instead of
\* returning None)
IterNextRetry(p) ==
  /\ pc[p] = "next"
  /\ IF idx[p] <= Len(api_keys)
       THEN /\ pc' = [pc EXCEPT ![p] = "is_ready_len"]
            /\ idx' = idx
       ELSE /\ pc' = pc
            /\ idx' = [idx EXCEPT ![p] = 1]
  /\ UNCHANGED <<api_keys, lock, clock, start, logging, log>>

\* the for loop asks the iterator for the next key; None at the end (86)
IterNext(p) ==
  /\ pc[p] = "next"
  /\ IF idx[p] <= Len(api_keys)
       THEN /\ pc' = [pc EXCEPT ![p] = "is_ready_len"]
            /\ UNCHANGED <<lock, idx, start, log>>
       ELSE Return(p, 0, None)
  /\ UNCHANGED <<api_keys, clock, logging>>

\* is_ready, line 126
IsReadyLen(p) ==
  /\ pc[p] = "is_ready_len"
  /\ pc' = [pc EXCEPT ![p] =
       IF LenBelowCount(api_keys[idx[p]]) THEN "use_key_len" ELSE "is_ready_peek"]
  /\ UNCHANGED <<api_keys, lock, clock, idx, start, logging, log>>

\* is_ready, lines 129-135; on false the loop moves to the next key
IsReadyPeek(p) ==
  /\ pc[p] = "is_ready_peek"
  /\ IF OldestExpired(api_keys[idx[p]], clock)
       THEN /\ pc' = [pc EXCEPT ![p] = "use_key_len"]
            /\ idx' = idx
       ELSE /\ pc' = [pc EXCEPT ![p] = "next"]
            /\ idx' = [idx EXCEPT ![p] = idx[p] + 1]
  /\ UNCHANGED <<api_keys, lock, clock, start, logging, log>>

\* use_key, line 140
UseKeyLen(p) ==
  /\ pc[p] = "use_key_len"
  /\ pc' = [pc EXCEPT ![p] =
       IF AtCapacity(api_keys[idx[p]]) THEN "use_key_pop" ELSE "use_key_push"]
  /\ UNCHANGED <<api_keys, lock, clock, idx, start, logging, log>>

\* use_key, line 141
UseKeyPop(p) ==
  /\ pc[p] = "use_key_pop"
  /\ api_keys' = [api_keys EXCEPT ![idx[p]].times = HeapPop(@)]
  /\ pc' = [pc EXCEPT ![p] = "use_key_push"]
  /\ UNCHANGED <<lock, clock, idx, start, logging, log>>

\* (variant: the return of line 83 is missing, the loop goes on)
UseKeyPushNoReturn(p) ==
  /\ pc[p] = "use_key_push"
  /\ api_keys' = [api_keys EXCEPT ![idx[p]].times = HeapPush(@, clock)]
  /\ idx' = [idx EXCEPT ![p] = idx[p] + 1]
  /\ pc' = [pc EXCEPT ![p] = "next"]
  /\ UNCHANGED <<lock, clock, start, logging, log>>

\* (variant: histories are kept per identifier: the use is recorded against
\* the first entry that has the identifier of the key)
UseKeyPushById(p) ==
  /\ pc[p] = "use_key_push"
  /\ LET j == CHOOSE i \in 1..Len(api_keys) :
                /\ api_keys[i].key = api_keys[idx[p]].key
                /\ \A h \in 1..(i - 1) : api_keys[h].key /= api_keys[idx[p]].key
     IN api_keys' = [api_keys EXCEPT ![j].times = HeapPush(@, clock)]
  /\ Return(p, idx[p], api_keys[idx[p]].key)
  /\ UNCHANGED <<clock, logging>>

\* (variant: the timestamp is pushed twice)
UseKeyPushTwice(p) ==
  /\ pc[p] = "use_key_push"
  /\ api_keys' = [api_keys EXCEPT
                    ![idx[p]].times = HeapPush(HeapPush(@, clock), clock)]
  /\ Return(p, idx[p], api_keys[idx[p]].key)
  /\ UNCHANGED <<clock, logging>>

\* use_key, lines 143-144, and the return of line 83
UseKeyPush(p) ==
  /\ pc[p] = "use_key_push"
  /\ api_keys' = [api_keys EXCEPT ![idx[p]].times = HeapPush(@, clock)]
  /\ Return(p, idx[p], api_keys[idx[p]].key)
  /\ UNCHANGED <<clock, logging>>

\* ----------------------------------------------------------------- clock
\* time passes
Tick ==
  /\ clock < MaxTime
  /\ clock' = clock + 1
  /\ UNCHANGED <<api_keys, lock, pc, idx, start, logging, log>>

Next ==
  \/ \E p \in Procs : CallAddKey(p)
  \/ \E p \in Procs : AddKey(p)
  \/ \E p \in Procs : CallPoll(p)
  \/ \E p \in Procs : PollLock(p)
  \/ \E p \in Procs : IterNext(p)
  \/ \E p \in Procs : IsReadyLen(p)
  \/ \E p \in Procs : IsReadyPeek(p)
  \/ \E p \in Procs : UseKeyLen(p)
  \/ \E p \in Procs : UseKeyPop(p)
  \/ \E p \in Procs : UseKeyPush(p)
  \/ Tick

Spec == Init /\ [][Next]_vars

\* The wall clock is set back (Utc::now() is not monotonic).
ClockBack ==
  /\ clock > 0
  /\ clock' = clock - 1
  /\ UNCHANGED <<api_keys, lock, pc, idx, start, logging, log>>

NextWall == Next \/ ClockBack

SpecWall == Init /\ [][NextWall]_vars

\* The same program with the completed polls recorded, up to MaxPolls.
InitLog ==
  /\ api_keys = <<>>
  /\ lock = 0
  /\ clock = 0
  /\ pc = [p \in Procs |-> "idle"]
  /\ idx = [p \in Procs |-> 0]
  /\ start = [p \in Procs |-> NoStart]
  /\ logging = TRUE
  /\ log = <<>>

SpecLog == InitLog /\ [][Next]_vars

\* The steps of a call in flight.  Acquire: the steps that take the pool lock
\* (tokio's Mutex hands the lock to waiters in FIFO order, so a waiter that
\* finds the lock free again and again gets it).  Proceed: the steps of a
\* caller that holds the lock (the task is polled until it completes).
Acquire(p) == AddKey(p) \/ PollLock(p)

Proceed(p) ==
  \/ IterNext(p)
  \/ IsReadyLen(p)
  \/ IsReadyPeek(p)
  \/ UseKeyLen(p)
  \/ UseKeyPop(p)
  \/ UseKeyPush(p)

\* The program under a fair scheduler; nothing makes the clock advance or a
\* caller call.
SpecFair ==
  /\ Init
  /\ [][Next]_vars
  /\ \A p \in Procs : SF_vars(Acquire(p)) /\ WF_vars(Proceed(p))

\* The program under a fair scheduler, with time passing (as far as the model
\* lets the clock run) and callers that poll again whenever they are idle:
\* the retry loop of the crate's example (lines 31-42).
SpecRetry ==
  /\ SpecFair
  /\ WF_vars(Tick)
  /\ \A p \in Procs : WF_vars(CallPoll(p))

\* ===================================================================
\* Properties
\* ===================================================================
ScanPcs == {"next", "is_ready_len", "is_ready_peek",
            "use_key_len", "use_key_pop", "use_key_push"}

\* p is inside the for loop of poll_for_key
InScan(p) == pc[p] \in ScanPcs

\* p is inside is_ready or use_key of the key at idx[p]
OnKey(p) == pc[p] \in ScanPcs \ {"next"}

\* the step in which p's poll_for_key returns
Returned(p) == InScan(p) /\ pc'[p] = "idle"

\* the step in which p's use_key records a use
Recorded(p) == pc[p] = "use_key_push" /\ pc'[p] /= "use_key_push"

Least(S) == CHOOSE x \in S : \A y \in S : x <= y

\* the indices of the keys that are ready in the snapshot s
ReadyAt(s) == {j \in 1..Len(s.keys) : IsReady(s.keys[j], s.clock)}

\* the completed polls that recorded a use against key i (places in the log)
UsesOf(i) == {m \in DOMAIN log : log[m].idx = i}

\* how many elements of the sequence u are equal to t
Occurrences(u, t) == Cardinality({j \in DOMAIN u : u[j] = t})

\* how many uses of key i have their timestamp in the window [t, t + d]
InWindow(i, t, d) ==
  Cardinality({m \in UsesOf(i) : t <= log[m].t /\ log[m].t <= t + d})

C2_AtomicCheckAndUse ==
  \A p \in Procs :
    OnKey(p) =>
      /\ lock = p
      /\ \A q \in Procs \ {p} : ~InScan(q)
      /\ idx[p] \in 1..Len(start[p].keys)
      /\ LET seen == start[p].keys[idx[p]]
             now  == api_keys[idx[p]].times
         IN IF pc[p] = "use_key_push" /\ AtCapacity(seen)
              THEN now = HeapPop(seen.times)
              ELSE now = seen.times

\* a caller has seen size < count and is about to push, another one waits
C2_Witness ==
  \E p, q \in Procs :
    /\ pc[p] = "use_key_push"
    /\ LenBelowCount(start[p].keys[idx[p]])
    /\ pc[q] = "poll_for_key"

\* C3: first-fit selection.  A poll that returns Some returns the identifier,
\* as given at construction, of a key such that no key before it was ready
\* when the call began; if some key was ready when the call began the poll
\* returns Some, of a key not after the first ready one, and of exactly the
\* first ready one when the clock did not move during the call.
C3_FirstFit ==
  [][\A p \in Procs :
       Returned(p) =>
         LET s == start[p]
             e == log'[Len(log')]
             R == ReadyAt(s)
         IN /\ e.idx /= 0 =>
                 /\ e.idx \in 1..Len(s.keys)
                 /\ e.res = s.keys[e.idx].key
                 /\ \A j \in 1..(e.idx - 1) : j \notin R
            /\ R /= {} => (e.idx /= 0 /\ e.idx <= Least(R))
            /\ (R /= {} /\ e.t = s.clock) => e.idx = Least(R)
    ]_vars

\* a poll with no time elapsing returned the second key, the first one (of
\* another identifier, count >= 1) being exhausted
C3_Witness ==
  /\ Len(api_keys) = 2
  /\ api_keys[1].key /= api_keys[2].key
  /\ api_keys[1].count >= 1
  /\ \E m \in DOMAIN log :
       log[m].idx = 2 /\ log[m].t0 = log[m].t /\ log[m].res = api_keys[2].key

\* C4: exhaustion reporting.  A poll that returns None leaves api_keys (the
\* sequence and every history) as it was when the call began, and no key was
\* ready then; a poll on a pool in which no key is ready (the clock not
\* moving during the call) returns None, and so does any poll on an empty pool.
C4_Exhaustion ==
  [][\A p \in Procs :
       Returned(p) =>
         LET s == start[p]
             e == log'[Len(log')]
             R == ReadyAt(s)
         IN /\ e.idx = 0 => (e.res = None /\ api_keys' = s.keys /\ R = {})
            /\ (R = {} /\ e.t = s.clock) =>
                 (e.idx = 0 /\ e.res = None /\ api_keys' = s.keys)
            /\ s.keys = <<>> => (e.idx = 0 /\ e.res = None)
    ]_vars

\* the first poll found the pool empty; the last one found every key (count
\* >= 1) exhausted
C4_Witness ==
  /\ Len(log) >= 2
  /\ log[1].idx = 0 /\ log[1].n = 0
  /\ log[Len(log)].idx = 0
  /\ \A p \in Procs : pc[p] = "idle"
  /\ Len(api_keys) = 2
  /\ \A i \in 1..2 : api_keys[i].count >= 1 /\ ~IsReady(api_keys[i], clock)

\* C5: rotation.  In a pool of K keys, all of policy (1, D) and all added
\* before the first poll, the polls that return at the instant T of the first
\* one return k1, ..., kK and then None; after these K + 1, a poll that begins
\* when more than D has elapsed since T returns k1.
C5_Rotation ==
  LET K == Len(api_keys) IN
    (/\ K >= 1
     /\ log /= <<>>
     /\ log[1].n = K
     /\ \A i \in 1..K : /\ api_keys[i].count = 1
                        /\ api_keys[i].per = api_keys[1].per
                        /\ api_keys[i].per > 0)
    => LET T == log[1].t
           D == api_keys[1].per
       IN \A m \in 1..Len(log) :
            /\ (m <= K /\ log[m].t = T) =>
                 (log[m].idx = m /\ log[m].res = api_keys[m].key)
            /\ (m = K + 1 /\ log[m].t = T) =>
                 (log[m].idx = 0 /\ log[m].res = None)
            /\ (m = K + 2 /\ log[K + 1].t = T /\ log[m].t0 > T + D) =>
                 (log[m].idx = 1 /\ log[m].res = api_keys[1].key)

\* two keys: k1, k2, None at one instant, and k1 again later
C5_Witness ==
  /\ Len(api_keys) = 2
  /\ api_keys[1].key /= api_keys[2].key
  /\ \A i \in 1..2 : api_keys[i].count = 1
  /\ Len(log) = 4
  /\ log[1].n = 2
  /\ log[3].t = log[1].t
  /\ <<log[1].idx, log[2].idx, log[3].idx, log[4].idx>> = <<1, 2, 0, 1>>
  /\ log[4].t0 > log[1].t + api_keys[1].per

C7_Eviction ==
  [][\A p \in Procs :
       Recorded(p) =>
         LET k      == start[p].keys[idx[p]]
             before == k.times
             after  == api_keys'[idx[p]].times
             least  == Least({before[j] : j \in DOMAIN before})
         IN (k.count >= 1 /\ Len(before) = k.count) =>
              /\ Len(after) = k.count
              /\ \A t \in Times :
                   Occurrences(after, t) =
                     Occurrences(before, t)
                       - (IF t = least THEN 1 ELSE 0)
                       + (IF t = clock THEN 1 ELSE 0)
    ]_vars

\* a full history of two different timestamps has lost the least one and is
\* about to get a new one that is older than the one it kept (the clock went
\* back)
C7_Witness ==
  \E p \in Procs :
    /\ pc[p] = "use_key_push"
    /\ LET k == start[p].keys[idx[p]]
       IN /\ k.count = 2
          /\ Len(k.times) = 2
          /\ k.times[1] < k.times[2]
          /\ api_keys[idx[p]].times = <<k.times[2]>>
          /\ clock < k.times[2]

\* C8: history bound.  In every state, the states between the statements of
\* use_key included, a key's history holds at most policy.count timestamps.
C8_HistoryBound ==
  \A i \in 1..Len(api_keys) : Len(api_keys[i].times) <= api_keys[i].count

\* a key of count 0 is in the pool, and a caller is between the pop and the
\* push of use_key on a key whose history was full
C8_Witness ==
  /\ \E i \in 1..Len(api_keys) : api_keys[i].count = 0
  /\ \E p \in Procs :
       /\ pc[p] = "use_key_push"
       /\ api_keys[idx[p]].count >= 1
       /\ Len(start[p].keys[idx[p]].times) = api_keys[idx[p]].count

\* C9: stable insertion order.  add_key appends one key and leaves the keys
\* already there as they are; no other step changes the length of the
\* sequence or the identifier or policy at any index; so the sequence of an
\* earlier state is always a prefix (by identifier and policy) of a later one.
SameKey(a, b) == a.key = b.key /\ a.count = b.count /\ a.per = b.per

C9_StableOrder ==
  [][/\ Len(api_keys') >= Len(api_keys)
     /\ \A i \in 1..Len(api_keys) : SameKey(api_keys'[i], api_keys[i])
     /\ \A p \in Procs :
          IF pc[p] = "add_key" /\ pc'[p] = "idle"
            THEN /\ Len(api_keys') = Len(api_keys) + 1
                 /\ SubSeq(api_keys', 1, Len(api_keys)) = api_keys
                 /\ api_keys'[Len(api_keys')].times = <<>>
            ELSE pc'[p] /= pc[p] => Len(api_keys') = Len(api_keys)
    ]_vars

\* two keys of different identifiers, the first one used, the second one
\* added after that use
C9_Witness ==
  /\ Len(api_keys) = 2
  /\ api_keys[1].key /= api_keys[2].key
  /\ api_keys[1].times /= <<>>
  /\ api_keys[2].times = <<>>
  /\ \E p \in Procs : InScan(p) /\ idx[p] = 2

\* C10: add_key concurrent with poll_for_key.  While a poll scans, it holds
\* the lock and the key sequence is the one it found when it took the lock;
\* an add_key takes effect in one step, when no poll is scanning, and adds
\* exactly one key; no step removes a key, so a poll called after an add_key
\* has returned scans a sequence that holds the added key.
C10_AddDuringPoll ==
  /\ [](\A p \in Procs :
          InScan(p) =>
            /\ lock = p
            /\ Len(api_keys) = Len(start[p].keys)
            /\ \A i \in 1..Len(api_keys) : SameKey(api_keys[i], start[p].keys[i])
            /\ idx[p] \in 1..(Len(api_keys) + 1))
  /\ [][/\ \A p \in Procs :
             (pc[p] = "add_key" /\ pc'[p] = "idle") =>
               /\ \A q \in Procs : ~InScan(q)
               /\ Len(api_keys') = Len(api_keys) + 1
        /\ \A p \in Procs :
             (pc[p] = "poll_for_key" /\ pc'[p] = "next") =>
               start'[p].keys = api_keys
        /\ Len(api_keys') >= Len(api_keys)
       ]_vars

\* a poll is about to record a use on the key an earlier add_key pushed,
\* while another add_key waits for the lock
C10_Witness ==
  \E p, q \in Procs :
    /\ pc[p] = "use_key_push"
    /\ Len(start[p].keys) = 1
    /\ pc[q] = "add_key"

\* C11: short pool-lock hold.  The pool lock is not held while a poll is
\* evaluating a key (inside is_ready or use_key): an add_key of another caller
\* that waits for the lock at that moment can take it and complete.
C11_ShortLockHold ==
  \A p \in Procs :
    OnKey(p) =>
      \A q \in Procs \ {p} : pc[q] = "add_key" => ENABLED AddKey(q)

\* C12: per-key independence.  A caller's ready+use transaction on one key
\* does not block another caller's transaction on a different key: while a
\* caller is inside is_ready or use_key of a key other than the first, a
\* caller whose poll is about to start (its first transaction is on the first
\* key) can proceed.
C12_PerKeyIndependence ==
  \A p \in Procs :
    (OnKey(p) /\ idx[p] /= 1) =>
      \A q \in Procs \ {p} : pc[q] = "poll_for_key" => ENABLED PollLock(q)

\* C13: non-blocking completion.  Under a fair scheduler every add_key and
\* every poll_for_key in flight returns, whether or not the clock advances;
\* whenever a call is in flight some call in flight can take a step (no
\* deadlock on a lock); and a poll makes one pass: while it scans its
\* position never goes back, and it comes back to the head of the loop only
\* with its position advanced by one.
C13_NonBlocking ==
  /\ \A p \in Procs : (pc[p] /= "idle") ~> (pc[p] = "idle")
  /\ [](\A p \in Procs :
          pc[p] /= "idle" =>
            \E q \in Procs : ENABLED (Acquire(q) \/ Proceed(q)))
  /\ [][\A p \in Procs :
          (InScan(p) /\ pc'[p] /= "idle") =>
            /\ idx'[p] >= idx[p]
            /\ idx'[p] <= Len(api_keys) + 1
            /\ (pc[p] /= "next" /\ pc'[p] = "next") => idx'[p] = idx[p] + 1
       ]_vars

\* a caller's add_key waits for the lock while a poll that found every key
\* exhausted is at the end of its pass, the clock not having advanced
C13_Witness ==
  \E p, q \in Procs :
    /\ pc[p] = "next"
    /\ idx[p] = Len(api_keys) + 1
    /\ Len(api_keys) >= 1
    /\ \A i \in 1..Len(api_keys) : api_keys[i].count >= 1
    /\ pc[q] = "add_key"
    /\ clock = 0

\* C14: fail-fast construction.  A policy with count < 1 or per <= 0 is
\* rejected by RateLimitPolicy::new, so no key of the pool is governed by
\* such a policy.
C14_FailFast ==
  \A i \in 1..Len(api_keys) :
    api_keys[i].count >= 1 /\ api_keys[i].per > 0

\* C15: no deduplication.  In a pool of two keys of the same identifier X
\* and the same policy (N, D), both added before the first poll, the polls
\* that return at the instant T of the first one return X from the first
\* entry N times, then X from the second entry N times, then None; and while
\* the clock is at T each entry's history holds exactly the uses recorded
\* against that entry.
C15_NoDedup ==
  (/\ Len(api_keys) = 2
   /\ log /= <<>>
   /\ log[1].n = 2
   /\ api_keys[1].key = api_keys[2].key
   /\ api_keys[1].count = api_keys[2].count
   /\ api_keys[1].count >= 1
   /\ api_keys[1].per > 0 /\ api_keys[2].per > 0)
  => LET T == log[1].t
         N == api_keys[1].count
         X == api_keys[1].key
     IN /\ \A m \in DOMAIN log :
             (\A j \in 1..m : log[j].t = T) =>
               /\ m <= N => (log[m].idx = 1 /\ log[m].res = X)
               /\ (N < m /\ m <= 2 * N) => (log[m].idx = 2 /\ log[m].res = X)
               /\ m > 2 * N => (log[m].idx = 0 /\ log[m].res = None)
        /\ clock = T =>
             \A i \in 1..2 :
               api_keys[i].times = [j \in 1..Cardinality(UsesOf(i)) |-> T]

\* two entries "a" of count MaxCount: the pool has returned "a" 2 * MaxCount
\* times at one instant, MaxCount times from each entry
C15_Witness ==
  /\ Len(api_keys) = 2
  /\ api_keys[1].key = api_keys[2].key
  /\ api_keys[1].count = MaxCount /\ api_keys[2].count = MaxCount
  /\ Len(log) = 2 * MaxCount
  /\ log[1].n = 2
  /\ \A m \in DOMAIN log :
       /\ log[m].t = log[1].t
       /\ log[m].res = api_keys[1].key
       /\ log[m].idx = (IF m <= MaxCount THEN 1 ELSE 2)

\* the uses ever recorded against key i whose timestamp is not before t
UsesSince(i, t) == Cardinality({m \in UsesOf(i) : log[m].t >= t})

C17_SingleUseFrame ==
  [][\A p \in Procs :
       Returned(p) =>
         LET s == start[p]
             e == log'[Len(log')]
         IN e.res /= None =>
              /\ e.idx \in 1..Len(s.keys)
              /\ s.keys[e.idx].key = e.res
              /\ Len(api_keys') = Len(s.keys)
              /\ \A j \in 1..Len(s.keys) :
                   j /= e.idx => api_keys'[j] = s.keys[j]
              /\ LET before == s.keys[e.idx].times
                     after  == api_keys'[e.idx].times
                     full   == Len(before) >= s.keys[e.idx].count
                 IN /\ Len(after) = (IF full THEN Len(before) ELSE Len(before) + 1)
                    /\ \A t \in Times :
                         Occurrences(after, t) =
                           Occurrences(before, t)
                             - (IF full /\ t = HeapPeek(before) THEN 1 ELSE 0)
                             + (IF t = clock THEN 1 ELSE 0)
    ]_vars

\* in a pool of two keys with histories, one poll has used the second key
\* (the first examined and not ready) and one the first (the second not
\* examined) after an eviction
C17_Witness ==
  /\ Len(api_keys) = 2
  /\ log /= <<>>
  /\ log[1].n = 2
  /\ \E m \in DOMAIN log : log[m].idx = 2 /\ log[m].t0 = log[m].t
  /\ Cardinality(UsesOf(1)) > api_keys[1].count
  /\ api_keys[2].times /= <<>>

\* every key of the pool has count >= 1 and per > 0
ValidPool ==
  /\ Len(api_keys) >= 1
  /\ \A i \in 1..Len(api_keys) : api_keys[i].count >= 1 /\ api_keys[i].per > 0

\* a poll has found a key ready and is inside use_key: it returns Some
FoundKey == \E p \in Procs : pc[p] \in {"use_key_len", "use_key_pop", "use_key_push"}

\* key i has a free slot, or the clock can still exceed its oldest timestamp
\* plus per within the range of the clock
CanRecover(i) ==
  LET k == api_keys[i] IN
    \/ Len(k.times) < k.count
    \/ HeapPeek(k.times) + k.per < MaxTime

C19_ZeroCountBlocked ==
  /\ [](\A i \in 1..Len(api_keys) :
          api_keys[i].count = 0 =>
            /\ ~IsReady(api_keys[i], clock)
            /\ api_keys[i].times = <<>>
            /\ \A p \in Procs :
                 (OnKey(p) /\ idx[p] = i) =>
                   pc[p] \in {"is_ready_len", "is_ready_peek"})
  /\ [][\A p \in Procs :
          (/\ pc[p] = "is_ready_peek"
           /\ api_keys[idx[p]].count = 0
           /\ pc'[p] /= pc[p])
          => (pc'[p] = "next" /\ idx'[p] = idx[p] + 1 /\ lock' = p)
       ]_vars

\* a poll has passed over a key of count 0 and is about to use the key after
\* it, the clock having gone back since that key's last use
C19_Witness ==
  \E p \in Procs :
    /\ pc[p] = "use_key_push"
    /\ idx[p] = 2
    /\ api_keys[1].count = 0
    /\ api_keys[2].times /= <<>>
    /\ clock < HeapPeek(api_keys[2].times)

====
